---- MODULE Spec2Model ----
(***************************************************************************)
(* A model of the proof kernel: the Term/Formula data model with its       *)
(* rendering and substitution functions (proof_system.cpp), the built-in   *)
(* line rules and the Proof engine with its goal tactics (proof.cpp).      *)
(*                                                                         *)
(* TLA+ strings are ASCII, so the non-ASCII glyphs of the source are       *)
(* written with the ASCII stand-ins defined below; every stand-in is a     *)
(* distinct string, as the glyphs are.                                     *)
(***************************************************************************)
EXTENDS Integers, Sequences, FiniteSets, TLC

\* ---------------------------------------------------------------- glyphs
element_of == "in"
natural_numbers_name == "N"
glyph_forall == "ALL "
glyph_exists == "EX "
glyph_not == "~"
glyph_or == " | "
glyph_and == " & "
glyph_implies == " -> "

\* ----------------------------------------------------------------- bounds
MaxLines == 3
MaxHistory == 5
MaxRegistered == 1

\* ------------------------------------------------------------------ terms
\* A term is a record [k, name, args]; Null is the null TermPtr.
make_variable(v) == [k |-> "Variable", name |-> v, args |-> <<>>]
make_constant(c) == [k |-> "Constant", name |-> c, args |-> <<>>]
make_function(f, args) == [k |-> "Function", name |-> f, args |-> args]
make_tuple(args) == [k |-> "Tuple", name |-> "", args |-> args]
Null == [k |-> "Null", name |-> "", args |-> <<>>]

\* ---------------------------------------------------------------- formulas
\* A formula is a record [k, name, terms, subs]: name is the relation symbol
\* or the bound variable, terms the term fields in declaration order (l, r /
\* args / domain), subs the subformulas in declaration order.
make_eq(a, b) == [k |-> "Equality", name |-> "", terms |-> <<a, b>>, subs |-> <<>>]
make_rel(R, args) == [k |-> "Relation", name |-> R, terms |-> args, subs |-> <<>>]
make_not(f) == [k |-> "Not", name |-> "", terms |-> <<>>, subs |-> <<f>>]
make_or(a, b) == [k |-> "Or", name |-> "", terms |-> <<>>, subs |-> <<a, b>>]
make_and(a, b) == [k |-> "And", name |-> "", terms |-> <<>>, subs |-> <<a, b>>]
make_implies(a, b) == [k |-> "Implies", name |-> "", terms |-> <<>>, subs |-> <<a, b>>]
make_forall(v, domain, inner) ==
    [k |-> "Forall", name |-> v, terms |-> <<domain>>, subs |-> <<inner>>]
make_exists(v, domain, inner) ==
    [k |-> "Exists", name |-> v, terms |-> <<domain>>, subs |-> <<inner>>]

\* ---------------------------------------------------------------- rendering
infix_operators == {"+", "*", element_of}
infix_relations == {"=", element_of, "<", "<=", ">"}

RECURSIVE Term_to_string(_)
RECURSIVE JoinTerms(_, _)
\* The loop that writes args[i..] separated by ", ".
JoinTerms(args, i) ==
    IF i > Len(args) THEN ""
    ELSE Term_to_string(args[i])
         \o (IF i < Len(args) THEN ", " ELSE "")
         \o JoinTerms(args, i + 1)

\* Term::to_string. The Tuple branch builds its string and falls through to
\* the final return "?". A null pointer has no rendering: the CASE has no arm
\* for it, so TLC stops on any evaluation of it.
Term_to_string(t) ==
    CASE t.k = "Variable" -> t.name
      [] t.k = "Constant" -> t.name
      [] t.k = "Function" ->
            IF t.name \in infix_operators /\ Len(t.args) = 2
            THEN "(" \o Term_to_string(t.args[1]) \o " " \o t.name \o " "
                     \o Term_to_string(t.args[2]) \o ")"
            ELSE t.name \o "(" \o JoinTerms(t.args, 1) \o ")"
      [] t.k = "Tuple" -> "?"

RECURSIVE Formula_to_string(_)
\* Formula::to_string.
Formula_to_string(f) ==
    CASE f.k = "Equality" ->
            "(" \o Term_to_string(f.terms[1]) \o " = " \o Term_to_string(f.terms[2]) \o ")"
      [] f.k = "Relation" ->
            IF f.name \in infix_relations /\ Len(f.terms) = 2
            THEN "(" \o Term_to_string(f.terms[1]) \o " " \o f.name \o " "
                     \o Term_to_string(f.terms[2]) \o ")"
            ELSE f.name \o "(" \o JoinTerms(f.terms, 1) \o ")"
      [] f.k = "Not" -> "(" \o glyph_not \o Formula_to_string(f.subs[1]) \o ")"
      [] f.k = "Or" ->
            "(" \o Formula_to_string(f.subs[1]) \o glyph_or \o Formula_to_string(f.subs[2]) \o ")"
      [] f.k = "And" ->
            "(" \o Formula_to_string(f.subs[1]) \o glyph_and \o Formula_to_string(f.subs[2]) \o ")"
      [] f.k = "Implies" ->
            "(" \o Formula_to_string(f.subs[1]) \o glyph_implies
                \o Formula_to_string(f.subs[2]) \o ")"
      [] f.k = "Forall" ->
            "(" \o glyph_forall \o f.name \o " " \o element_of \o " "
                \o Term_to_string(f.terms[1]) \o ")(" \o Formula_to_string(f.subs[1]) \o ")"
      [] f.k = "Exists" ->
            "(" \o glyph_exists \o f.name \o " " \o element_of \o " "
                \o Term_to_string(f.terms[1]) \o ")(" \o Formula_to_string(f.subs[1]) \o ")"

\* The comparison a->to_string() == b->to_string() used as the equality test.
same_string(a, b) == Formula_to_string(a) = Formula_to_string(b)
same_term_string(a, b) == Term_to_string(a) = Term_to_string(b)

\* -------------------------------------------------------------- substitution
RECURSIVE substitute_in_term(_, _, _)
\* substitute_in_term(u, var, t): no branch handles a Tuple, which returns
\* nullptr.
substitute_in_term(u, var, t) ==
    CASE u.k = "Variable" -> IF u.name = var.name THEN t ELSE make_variable(u.name)
      [] u.k = "Constant" -> make_constant(u.name)
      [] u.k = "Function" ->
            make_function(u.name,
                [i \in 1..Len(u.args) |-> substitute_in_term(u.args[i], var, t)])
      [] OTHER -> Null

RECURSIVE substitute_in_formula(_, _, _)
\* substitute_in_formula(phi, var, t): a quantifier binding var's name is
\* returned as it is; a quantifier's domain is never substituted into.
substitute_in_formula(phi, var, t) ==
    CASE phi.k = "Equality" ->
            make_eq(substitute_in_term(phi.terms[1], var, t),
                    substitute_in_term(phi.terms[2], var, t))
      [] phi.k = "Relation" ->
            make_rel(phi.name,
                [i \in 1..Len(phi.terms) |-> substitute_in_term(phi.terms[i], var, t)])
      [] phi.k = "Not" -> make_not(substitute_in_formula(phi.subs[1], var, t))
      [] phi.k = "Or" ->
            make_or(substitute_in_formula(phi.subs[1], var, t),
                    substitute_in_formula(phi.subs[2], var, t))
      [] phi.k = "And" ->
            make_and(substitute_in_formula(phi.subs[1], var, t),
                     substitute_in_formula(phi.subs[2], var, t))
      [] phi.k = "Implies" ->
            make_implies(substitute_in_formula(phi.subs[1], var, t),
                         substitute_in_formula(phi.subs[2], var, t))
      [] phi.k = "Forall" ->
            IF phi.name = var.name THEN phi
            ELSE make_forall(phi.name, phi.terms[1],
                             substitute_in_formula(phi.subs[1], var, t))
      [] phi.k = "Exists" ->
            IF phi.name = var.name THEN phi
            ELSE make_exists(phi.name, phi.terms[1],
                             substitute_in_formula(phi.subs[1], var, t))

RECURSIVE substitute_term_in_term(_, _, _)
\* substitute_term_in_term(u, pattern, replacement): the match is the
\* comparison of the two renderings.
substitute_term_in_term(u, pattern, replacement) ==
    IF same_term_string(u, pattern) THEN replacement
    ELSE CASE u.k = "Function" ->
                make_function(u.name,
                    [i \in 1..Len(u.args) |->
                        substitute_term_in_term(u.args[i], pattern, replacement)])
           [] u.k = "Tuple" ->
                make_tuple([i \in 1..Len(u.args) |->
                        substitute_term_in_term(u.args[i], pattern, replacement)])
           [] u.k = "Variable" -> make_variable(u.name)
           [] u.k = "Constant" -> make_constant(u.name)

RECURSIVE substitute_term_in_formula(_, _, _)
\* substitute_term_in_formula(phi, pattern, replacement): quantifier domains
\* are copied, not rewritten.
substitute_term_in_formula(phi, pattern, replacement) ==
    CASE phi.k = "Equality" ->
            make_eq(substitute_term_in_term(phi.terms[1], pattern, replacement),
                    substitute_term_in_term(phi.terms[2], pattern, replacement))
      [] phi.k = "Relation" ->
            make_rel(phi.name,
                [i \in 1..Len(phi.terms) |->
                    substitute_term_in_term(phi.terms[i], pattern, replacement)])
      [] phi.k = "Not" ->
            make_not(substitute_term_in_formula(phi.subs[1], pattern, replacement))
      [] phi.k = "Or" ->
            make_or(substitute_term_in_formula(phi.subs[1], pattern, replacement),
                    substitute_term_in_formula(phi.subs[2], pattern, replacement))
      [] phi.k = "And" ->
            make_and(substitute_term_in_formula(phi.subs[1], pattern, replacement),
                     substitute_term_in_formula(phi.subs[2], pattern, replacement))
      [] phi.k = "Implies" ->
            make_implies(substitute_term_in_formula(phi.subs[1], pattern, replacement),
                         substitute_term_in_formula(phi.subs[2], pattern, replacement))
      [] phi.k = "Forall" ->
            make_forall(phi.name, phi.terms[1],
                        substitute_term_in_formula(phi.subs[1], pattern, replacement))
      [] phi.k = "Exists" ->
            make_exists(phi.name, phi.terms[1],
                        substitute_term_in_formula(phi.subs[1], pattern, replacement))

\* ------------------------------------------------------------------ rules
\* What a LineRule call yields: the returned formula, or the exception.
Ok(f) == [err |-> "", value |-> f]
Raise(msg) == [err |-> msg, value |-> make_rel("", <<>>)]

\* The lambda registered as "ASSUMPTION" by the constructor: it reads the
\* proof's assumptions at the time of the call and ignores its inputs.
assumption_lambda(assumps, inputs, claimed) ==
    IF \E i \in 1..Len(assumps) : same_string(assumps[i], claimed)
    THEN Ok(claimed)
    ELSE Raise("Invalid assumption")

\* The free function assumption_rule: returns the claim, whatever it is.
assumption_rule(inputs, claimed) == Ok(claimed)

\* and_rule accepting the conjunction of its inputs in either order.
and_rule_either_order(inputs, claimed) ==
    IF Len(inputs) # 2 THEN Raise("AND rule needs 2 inputs")
    ELSE IF /\ ~same_string(make_and(inputs[1], inputs[2]), claimed)
            /\ ~same_string(make_and(inputs[2], inputs[1]), claimed)
    THEN Raise("Claimed does not match AND result")
    ELSE Ok(claimed)

and_rule(inputs, claimed) ==
    IF Len(inputs) # 2 THEN Raise("AND rule needs 2 inputs")
    ELSE IF ~same_string(make_and(inputs[1], inputs[2]), claimed)
    THEN Raise("Claimed does not match AND result")
    ELSE Ok(claimed)

eq_rule(inputs, claimed) ==
    IF Len(inputs) # 0 THEN Raise("EQ_SIMPLIFY rule takes no inputs")
    ELSE IF claimed.k # "Equality" THEN Raise("Claimed formula is not an equality")
    ELSE IF ~same_term_string(claimed.terms[1], claimed.terms[2])
    THEN Raise("Left and right sides of equality are not equal")
    ELSE Ok(claimed)

\* forall_rule without the comparison of the two domains.
forall_rule_any_domain(inputs, claimed) ==
    IF Len(inputs) # 2 THEN Raise("FORALL rule requires 2 inputs")
    ELSE IF inputs[1].k # "Forall" THEN Raise("First input must be a forall formula")
    ELSE IF inputs[2].k # "Relation" \/ Len(inputs[2].terms) # 2
            \/ inputs[2].name # element_of
    THEN Raise("Second input must be a membership relation")
    ELSE LET elem == inputs[2].terms[1]
             var_term == make_variable(inputs[1].name)
             instantiated == substitute_in_formula(inputs[1].subs[1], var_term, elem)
         IN  IF ~same_string(instantiated, claimed)
             THEN Raise("Claimed formula does not match derived formula")
             ELSE Ok(claimed)

forall_rule(inputs, claimed) ==
    IF Len(inputs) # 2 THEN Raise("FORALL rule requires 2 inputs")
    ELSE IF inputs[1].k # "Forall" THEN Raise("First input must be a forall formula")
    ELSE IF inputs[2].k # "Relation" \/ Len(inputs[2].terms) # 2
            \/ inputs[2].name # element_of
    THEN Raise("Second input must be a membership relation")
    ELSE LET elem == inputs[2].terms[1]
             fact_domain == inputs[2].terms[2]
             var_term == make_variable(inputs[1].name)
             instantiated == substitute_in_formula(inputs[1].subs[1], var_term, elem)
         IN  IF ~same_term_string(inputs[1].terms[1], fact_domain)
             THEN Raise("Element's domain does not match forall domain")
             ELSE IF ~same_string(instantiated, claimed)
             THEN Raise("Claimed formula does not match derived formula")
             ELSE Ok(claimed)

\* excluded_middle_rule without the comparison of the two sides.
excluded_middle_rule_any_sides(inputs, claimed) ==
    IF Len(inputs) # 0 THEN Raise("LEM requires no inputs")
    ELSE IF claimed.k # "Or" THEN Raise("LEM: claimed formula is not an OR")
    ELSE IF claimed.subs[2].k # "Not" THEN Raise("LEM: right-hand side is not a NOT")
    ELSE Ok(claimed)

excluded_middle_rule(inputs, claimed) ==
    IF Len(inputs) # 0 THEN Raise("LEM requires no inputs")
    ELSE IF claimed.k # "Or" THEN Raise("LEM: claimed formula is not an OR")
    ELSE IF claimed.subs[2].k # "Not" THEN Raise("LEM: right-hand side is not a NOT")
    ELSE IF ~same_string(claimed.subs[1], claimed.subs[2].subs[1])
    THEN Raise("LEM: must be of the form (P | ~P)")
    ELSE Ok(claimed)

\* cases_rule without the comparison of the negated antecedent with f.
cases_rule_any_negation(inputs, claimed) ==
    IF Len(inputs) # 2 THEN Raise("CASES requires 2 inputs")
    ELSE IF inputs[1].k # "Implies" THEN Raise("CASES: first input must be an implication")
    ELSE IF inputs[2].k # "Implies" THEN Raise("CASES: second input must be an implication")
    ELSE IF ~same_string(inputs[1].subs[2], claimed) \/ ~same_string(inputs[2].subs[2], claimed)
    THEN Raise("CASES: both implications must derive the claimed formula")
    ELSE IF inputs[2].subs[1].k # "Not"
    THEN Raise("CASES: second implication must have ~f on the left side")
    ELSE Ok(claimed)

cases_rule(inputs, claimed) ==
    IF Len(inputs) # 2 THEN Raise("CASES requires 2 inputs")
    ELSE IF inputs[1].k # "Implies" THEN Raise("CASES: first input must be an implication")
    ELSE IF inputs[2].k # "Implies" THEN Raise("CASES: second input must be an implication")
    ELSE LET f == inputs[1].subs[1]
             t1 == inputs[1].subs[2]
             left2 == inputs[2].subs[1]
             t2 == inputs[2].subs[2]
         IN  IF ~same_string(t1, claimed) \/ ~same_string(t2, claimed)
             THEN Raise("CASES: both implications must derive the claimed formula")
             ELSE IF left2.k # "Not"
             THEN Raise("CASES: second implication must have ~f on the left side")
             ELSE IF ~same_string(left2.subs[1], f)
             THEN Raise("CASES: mismatched f and ~f assumptions")
             ELSE Ok(claimed)

\* induction_rule without the comparison of the base with P(0).
induction_rule_any_base(inputs, claimed) ==
    IF Len(inputs) # 2 THEN Raise("INDUCTION requires 2 inputs")
    ELSE IF inputs[2].k # "Forall" THEN Raise("Step must be a forall formula")
    ELSE IF inputs[2].subs[1].k # "Implies" THEN Raise("Step must be an implication")
    ELSE LET implies == inputs[2].subs[1]
             var_term == make_variable(inputs[2].name)
             succ_term == make_function("+", <<var_term, make_constant("1")>>)
             Pk == implies.subs[1]
             Psucc == substitute_in_formula(Pk, var_term, succ_term)
             Pn == substitute_in_formula(Pk, var_term, make_variable("n"))
             result == make_forall("n", make_constant(natural_numbers_name), Pn)
         IN  IF ~same_string(implies.subs[2], Psucc)
             THEN Raise("Step conclusion mismatch")
             ELSE IF ~same_string(claimed, result)
             THEN Raise("Claimed does not match derived")
             ELSE Ok(claimed)

induction_rule(inputs, claimed) ==
    IF Len(inputs) # 2 THEN Raise("INDUCTION requires 2 inputs")
    ELSE IF inputs[2].k # "Forall" THEN Raise("Step must be a forall formula")
    ELSE IF inputs[2].subs[1].k # "Implies" THEN Raise("Step must be an implication")
    ELSE LET base == inputs[1]
             implies == inputs[2].subs[1]
             var_term == make_variable(inputs[2].name)
             succ_term == make_function("+", <<var_term, make_constant("1")>>)
             zero_term == make_constant("0")
             Pk == implies.subs[1]
             P0 == substitute_in_formula(Pk, var_term, zero_term)
             Psucc == substitute_in_formula(Pk, var_term, succ_term)
             n_term == make_variable("n")
             Pn == substitute_in_formula(Pk, var_term, n_term)
             result == make_forall("n", make_constant(natural_numbers_name), Pn)
         IN  IF ~same_string(P0, base) THEN Raise("Base mismatch")
             ELSE IF ~same_string(implies.subs[2], Psucc)
             THEN Raise("Step conclusion mismatch")
             ELSE IF ~same_string(claimed, result)
             THEN Raise("Claimed does not match derived")
             ELSE Ok(claimed)

\* The verifiers a rule name can be bound to, and the std::function call
\* rules[rule_name](dep_statements, claimed).
Verifiers == {"assumption_lambda", "assumption_rule", "and_rule", "eq_rule",
              "forall_rule", "excluded_middle_rule", "cases_rule", "induction_rule"}

call_rule(verifier, assumps, inputs, claimed) ==
    CASE verifier = "assumption_lambda" -> assumption_lambda(assumps, inputs, claimed)
      [] verifier = "assumption_rule" -> assumption_rule(inputs, claimed)
      [] verifier = "and_rule" -> and_rule(inputs, claimed)
      [] verifier = "eq_rule" -> eq_rule(inputs, claimed)
      [] verifier = "forall_rule" -> forall_rule(inputs, claimed)
      [] verifier = "excluded_middle_rule" -> excluded_middle_rule(inputs, claimed)
      [] verifier = "cases_rule" -> cases_rule(inputs, claimed)
      [] verifier = "induction_rule" -> induction_rule(inputs, claimed)

\* ------------------------------------------------------------- Proof state
VARIABLES lines, assumptions, targets, active_target_idx, target_history, rules,
          outcome

vars == <<lines, assumptions, targets, active_target_idx, target_history, rules,
          outcome>>

\* The Proof object's members as one record ("this").
this ==
    [lines |-> lines, assumptions |-> assumptions, targets |-> targets,
     active_target_idx |-> active_target_idx, target_history |-> target_history,
     rules |-> rules]

\* A member function's effect: the object as it leaves the call and the
\* exception's message ("" when the call returns).
Return(p) == [state |-> p, err |-> ""]
Throw(p, msg) == [state |-> p, err |-> msg]

\* rules is an unordered_map: a function on the names registered so far.
rules_count(p, rule_name) == rule_name \in DOMAIN p.rules

\* vector::erase(begin() + i), i counted from 0.
erase(v, i) == [j \in 1..(Len(v) - 1) |-> IF j <= i THEN v[j] ELSE v[j + 1]]

\* The dependency check of add_line_to_proof's gathering loop.
dependency_in_range(p, idx) == ~(idx < 0 \/ idx >= Len(p.lines))

\* The gathered statements in reverse of the cited order.
dep_statements_reversed(p, deps) ==
    [i \in 1..Len(deps) |-> p.lines[deps[Len(deps) + 1 - i] + 1].statement]

\* dep_statements: the cited lines' statements, in cited order.
dep_statements(p, deps) == [i \in 1..Len(deps) |-> p.lines[deps[i] + 1].statement]

\* lines.push_back({claimed, rule_name, deps}).
\* The new line put in front of the log instead of behind it.
push_line_front(p, claimed, rule_name, deps) ==
    [p EXCEPT !.lines = <<[statement |-> claimed, justification |-> rule_name,
                           dependencies |-> deps]>> \o @]

push_line(p, claimed, rule_name, deps) ==
    [p EXCEPT !.lines = Append(@, [statement |-> claimed, justification |-> rule_name,
                                   dependencies |-> deps])]

\* The indices (from 0) of the targets whose rendering equals the claim's.
matching_targets(p, claimed) ==
    {i \in 0..(Len(p.targets) - 1) : same_string(p.targets[i + 1], claimed)}

\* The index the completion loop stops at: the first match.
first_match(p, claimed) ==
    CHOOSE i \in matching_targets(p, claimed) :
        \A j \in matching_targets(p, claimed) : i <= j

\* The completion loop without its break: every matching target is erased.
complete_target_no_break(p, claimed) ==
    [p EXCEPT !.targets = SelectSeq(@, LAMBDA t : ~same_string(t, claimed))]

\* The completion loop with the decrement not guarded by "> 0": the unsigned
\* index at 0 wraps to its largest value, here the largest integer there is.
complete_target_unguarded(p, claimed) ==
    IF matching_targets(p, claimed) = {} THEN p
    ELSE LET i == first_match(p, claimed)
         IN  [p EXCEPT !.targets = erase(@, i),
                       !.active_target_idx =
                            IF @ >= i
                            THEN (IF @ = 0 THEN 2147483647 ELSE @ - 1)
                            ELSE @]

\* The completion loop that looks at the active target only.
complete_target_active_only(p, claimed) ==
    IF p.active_target_idx \notin matching_targets(p, claimed) THEN p
    ELSE [p EXCEPT !.targets = erase(@, p.active_target_idx)]

\* The loop "Check if this line completes any targets"; i and the active
\* index are both counted from 0.
complete_target(p, claimed) ==
    IF matching_targets(p, claimed) = {} THEN p
    ELSE LET i == first_match(p, claimed)
         IN  [p EXCEPT !.targets = erase(@, i),
                       !.active_target_idx =
                            IF @ >= i /\ @ > 0 THEN @ - 1 ELSE @]

\* add_line_to_proof with the line pushed before the rule is applied.
add_line_push_first(p, claimed, rule_name, deps) ==
    IF ~rules_count(p, rule_name) THEN Throw(p, "Unknown rule")
    ELSE IF \E i \in 1..Len(deps) : ~dependency_in_range(p, deps[i])
    THEN Throw(p, "Invalid dependency index")
    ELSE LET pushed == push_line(p, claimed, rule_name, deps)
             derived == call_rule(p.rules[rule_name], p.assumptions,
                                  dep_statements(p, deps), claimed)
         IN  IF derived.err # "" THEN Throw(pushed, derived.err)
             ELSE Return(complete_target(pushed, claimed))

\* add_line_to_proof with the range check off by one (idx > size): the index
\* of the line being added passes, and stands for the claim itself.
add_line_off_by_one(p, claimed, rule_name, deps) ==
    IF ~rules_count(p, rule_name) THEN Throw(p, "Unknown rule")
    ELSE IF \E i \in 1..Len(deps) : deps[i] < 0 \/ deps[i] > Len(p.lines)
    THEN Throw(p, "Invalid dependency index")
    ELSE LET stmts == [i \in 1..Len(deps) |->
                          IF deps[i] = Len(p.lines) THEN claimed
                          ELSE p.lines[deps[i] + 1].statement]
             derived == call_rule(p.rules[rule_name], p.assumptions, stmts, claimed)
         IN  IF derived.err # "" THEN Throw(p, derived.err)
             ELSE Return(complete_target(push_line(p, claimed, rule_name, deps), claimed))

\* Proof::add_line_to_proof.
add_line_to_proof(p, claimed, rule_name, deps) ==
    IF ~rules_count(p, rule_name) THEN Throw(p, "Unknown rule")
    ELSE IF \E i \in 1..Len(deps) : ~dependency_in_range(p, deps[i])
    THEN Throw(p, "Invalid dependency index")
    ELSE LET derived == call_rule(p.rules[rule_name], p.assumptions,
                                  dep_statements(p, deps), claimed)
         IN  IF derived.err # "" THEN Throw(p, derived.err)
             ELSE IF ~same_string(derived.value, claimed)
             THEN Throw(p, "Claimed statement does not match derived")
             ELSE Return(complete_target(push_line(p, claimed, rule_name, deps), claimed))

\* targets[active_target_idx]: reading past the end of the vector is undefined
\* behaviour, which the model leaves undefined (TLC stops on it).
active_target(p) ==
    CASE p.active_target_idx < Len(p.targets) -> p.targets[p.active_target_idx + 1]

set_active_target(p, goal) ==
    [p EXCEPT !.targets = [@ EXCEPT ![p.active_target_idx + 1] = goal]]

push_history(p) == [p EXCEPT !.target_history = Append(@, p.targets)]

push_assumption(p, f) == [p EXCEPT !.assumptions = Append(@, f)]

\* std::optional<TermPtr>: nullopt, or a term.
nullopt == [k |-> "nullopt", name |-> "", args |-> <<>>]
has_value(o) == o # nullopt

\* The witness chosen without regard to the caller's term.
arbitrary_variable_ignoring_request(requested_variable, v) == make_variable(v)

\* The witness instantiate_forall substitutes.
arbitrary_variable(requested_variable, v) ==
    IF has_value(requested_variable) THEN requested_variable ELSE make_variable(v)

\* The membership assumption instantiate_forall adds for the witness.
membership_assumption(forall, witness) ==
    make_rel(element_of, <<witness, make_constant(natural_numbers_name)>>)

\* instantiate_forall with the history snapshot taken after the active target
\* was replaced.
instantiate_forall_late_snapshot(p, requested_variable) ==
    IF Len(p.targets) = 0 THEN Throw(p, "No active goals to instantiate")
    ELSE LET current_goal == active_target(p)
         IN  IF current_goal.k # "Forall"
             THEN Throw(p, "instantiate_forall: active goal is not a forall formula")
             ELSE LET w == arbitrary_variable(requested_variable, current_goal.name)
                      bound_var == make_variable(current_goal.name)
                      new_goal == substitute_in_formula(current_goal.subs[1], bound_var, w)
                      p1 == push_assumption(p, membership_assumption(current_goal, w))
                  IN  Return(push_history(set_active_target(p1, new_goal)))

\* Proof::instantiate_forall.
instantiate_forall(p, requested_variable) ==
    IF Len(p.targets) = 0 THEN Throw(p, "No active goals to instantiate")
    ELSE LET current_goal == active_target(p)
         IN  IF current_goal.k # "Forall"
             THEN Throw(p, "instantiate_forall: active goal is not a forall formula")
             ELSE LET w == arbitrary_variable(requested_variable, current_goal.name)
                      bound_var == make_variable(current_goal.name)
                      new_goal == substitute_in_formula(current_goal.subs[1], bound_var, w)
                      p1 == push_assumption(p, membership_assumption(current_goal, w))
                  IN  Return(set_active_target(push_history(p1), new_goal))

\* instantiate_implication without the push of the antecedent.
instantiate_implication_no_push(p) ==
    IF Len(p.targets) = 0 THEN Throw(p, "No active goals to instantiate")
    ELSE LET current_goal == active_target(p)
         IN  IF current_goal.k # "Implies"
             THEN Throw(p, "instantiate_implication: active goal is not an implication formula")
             ELSE Return(set_active_target(push_history(p), current_goal.subs[2]))

\* instantiate_implication leaving the antecedent as a further target
\* instead of an assumption.
instantiate_implication_antecedent_target(p) ==
    IF Len(p.targets) = 0 THEN Throw(p, "No active goals to instantiate")
    ELSE LET current_goal == active_target(p)
         IN  IF current_goal.k # "Implies"
             THEN Throw(p, "instantiate_implication: active goal is not an implication formula")
             ELSE Return([set_active_target(push_history(p), current_goal.subs[2])
                            EXCEPT !.targets = Append(@, current_goal.subs[1])])

\* Proof::instantiate_implication.
instantiate_implication(p) ==
    IF Len(p.targets) = 0 THEN Throw(p, "No active goals to instantiate")
    ELSE LET current_goal == active_target(p)
         IN  IF current_goal.k # "Implies"
             THEN Throw(p, "instantiate_implication: active goal is not an implication formula")
             ELSE Return(set_active_target(
                            push_history(push_assumption(p, current_goal.subs[1])),
                            current_goal.subs[2]))

\* The step-case target instantiate_induction appends for Forall(v, domain, Pn).
step_forall(forall) ==
    LET var_term == make_variable(forall.name)
        k_term == make_variable("k")
        succ_term == make_function("+", <<k_term, make_constant("1")>>)
        Pk == substitute_in_formula(forall.subs[1], var_term, k_term)
        Psucc == substitute_in_formula(forall.subs[1], var_term, succ_term)
    IN  make_forall("k", make_constant(natural_numbers_name), make_implies(Pk, Psucc))

\* The base-case target P(0).
base_case(forall) ==
    substitute_in_formula(forall.subs[1], make_variable(forall.name), make_constant("0"))

\* get_active_target with the range check off by one (idx > size): the read
\* past the end yields some formula.
get_active_target_off_by_one(p) ==
    IF p.active_target_idx > Len(p.targets)
    THEN [err |-> "Active goal index out of range", value |-> make_rel("", <<>>)]
    ELSE [err |-> "",
          value |-> IF p.active_target_idx < Len(p.targets)
                    THEN p.targets[p.active_target_idx + 1]
                    ELSE make_forall("n", make_constant("0"), make_rel("", <<>>))]

\* Proof::get_active_target.
get_active_target(p) ==
    IF p.active_target_idx >= Len(p.targets)
    THEN [err |-> "Active goal index out of range", value |-> make_rel("", <<>>)]
    ELSE [err |-> "", value |-> p.targets[p.active_target_idx + 1]]

\* instantiate_induction putting the step case in the active slot and the
\* base case behind it.
instantiate_induction_step_first(p) ==
    LET current_goal == get_active_target(p)
    IN  IF current_goal.err # "" THEN Throw(p, current_goal.err)
        ELSE IF current_goal.value.k # "Forall"
        THEN Throw(p, "instantiate_induction: active goal is not a forall formula")
        ELSE LET p1 == push_history(p)
                 p2 == set_active_target(p1, step_forall(current_goal.value))
             IN  Return([p2 EXCEPT !.targets = Append(@, base_case(current_goal.value))])

\* instantiate_induction moving the focus to the step case it appends.
instantiate_induction_focus_step(p) ==
    LET current_goal == get_active_target(p)
    IN  IF current_goal.err # "" THEN Throw(p, current_goal.err)
        ELSE IF current_goal.value.k # "Forall"
        THEN Throw(p, "instantiate_induction: active goal is not a forall formula")
        ELSE LET p1 == push_history(p)
                 p2 == set_active_target(p1, base_case(current_goal.value))
             IN  Return([p2 EXCEPT !.targets = Append(@, step_forall(current_goal.value)),
                                   !.active_target_idx = Len(p.targets)])

\* Proof::instantiate_induction.
instantiate_induction(p) ==
    LET current_goal == get_active_target(p)
    IN  IF current_goal.err # "" THEN Throw(p, current_goal.err)
        ELSE IF current_goal.value.k # "Forall"
        THEN Throw(p, "instantiate_induction: active goal is not a forall formula")
        ELSE LET p1 == push_history(p)
                 p2 == set_active_target(p1, base_case(current_goal.value))
             IN  Return([p2 EXCEPT !.targets = Append(@, step_forall(current_goal.value))])

\* rewrite_target_using_equality with the history snapshot taken on entry.
rewrite_snapshot_first(p, equality_proof_line) ==
    IF Len(p.targets) = 0 THEN Throw(p, "No active goals to rewrite")
    ELSE IF equality_proof_line < 0 \/ equality_proof_line >= Len(p.lines)
    THEN Throw(push_history(p), "Invalid equality line index")
    ELSE LET equality_formula == p.lines[equality_proof_line + 1].statement
         IN  IF equality_formula.k # "Equality"
             THEN Throw(push_history(p), "Selected line is not an equality")
             ELSE LET lhs == equality_formula.terms[1]
                      rhs == equality_formula.terms[2]
                      new_goal == substitute_term_in_formula(active_target(p), lhs, rhs)
                  IN  Return(set_active_target(push_history(p), new_goal))

\* Proof::rewrite_target_using_equality.
rewrite_target_using_equality(p, equality_proof_line) ==
    IF Len(p.targets) = 0 THEN Throw(p, "No active goals to rewrite")
    ELSE IF equality_proof_line < 0 \/ equality_proof_line >= Len(p.lines)
    THEN Throw(p, "Invalid equality line index")
    ELSE LET equality_formula == p.lines[equality_proof_line + 1].statement
         IN  IF equality_formula.k # "Equality"
             THEN Throw(p, "Selected line is not an equality")
             ELSE LET lhs == equality_formula.terms[1]
                      rhs == equality_formula.terms[2]
                      new_goal == substitute_term_in_formula(active_target(p), lhs, rhs)
                  IN  Return(set_active_target(push_history(p), new_goal))

\* is_valid answering for the active index instead of the target list.
is_valid_by_index(p) == p.active_target_idx = 0 /\ Len(p.lines) > 0

\* Proof::is_valid.
is_valid(p) == Len(p.targets) = 0

\* register_rule that keeps the verifier a name already has (map insert).
register_rule_keep_existing(p, name, rule) ==
    [p EXCEPT !.rules =
        [n \in (DOMAIN p.rules) \cup {name} |->
            IF n \in DOMAIN p.rules THEN p.rules[n] ELSE rule]]

\* Proof::register_rule: rules[name] = rule.
register_rule(p, name, rule) ==
    [p EXCEPT !.rules =
        [n \in (DOMAIN p.rules) \cup {name} |-> IF n = name THEN rule ELSE p.rules[n]]]

\* Proof::Proof.
Proof(assumps, target) ==
    [lines |-> <<>>, assumptions |-> assumps, targets |-> <<target>>,
     active_target_idx |-> 0, target_history |-> <<>>,
     rules |-> [n \in {"ASSUMPTION", "FORALL", "EQ", "AND"} |->
                  CASE n = "ASSUMPTION" -> "assumption_lambda"
                    [] n = "FORALL" -> "forall_rule"
                    [] n = "EQ" -> "eq_rule"
                    [] n = "AND" -> "and_rule"]]

\* ------------------------------------------------------- the callers' inputs
Range(v) == {v[i] : i \in 1..Len(v)}

N == make_constant(natural_numbers_name)
X == make_constant("X")
x == make_variable("x")
y == make_variable("y")
k == make_variable("k")
m == make_variable("m")
zero == make_constant("0")
one == make_constant("1")
two == make_constant("2")
three == make_constant("3")
five == make_constant("5")

\* Example 1 of main: assumptions x = 2, y = 3, target (x = 2) & (y = 3).
x_eq_2 == make_eq(x, two)
y_eq_3 == make_eq(y, three)
and_target == make_and(x_eq_2, y_eq_3)

\* A nested universal target, (ALL n in N)(ALL m in N)(m = m), with the step
\* case of its inner induction assumed.
m_eq_m == make_eq(m, m)
forall_m == make_forall("m", N, m_eq_m)
nested_target == make_forall("n", N, forall_m)
k_plus_1 == make_function("+", <<k, one>>)
step_m_eq_m == make_forall("k", N, make_implies(make_eq(k, k), make_eq(k_plus_1, k_plus_1)))

\* A universal target over a domain other than N, after Example 2 of main:
\* assumption (ALL x in X)(x = 5), target (ALL y in X)(P(y) -> y = 5).
forall_x_eq_5 == make_forall("x", X, make_eq(x, five))
P_y == make_rel("P", <<y>>)
y_eq_5 == make_eq(y, five)
y_in_X == make_rel(element_of, <<y, X>>)
domain_target == make_forall("y", X, make_implies(P_y, y_eq_5))

\* Example 4 of main: no assumptions, target P(x) | ~P(x), rule LEM registered
\* by the caller.
P_x == make_rel("P", <<x>>)
lem_target == make_or(P_x, make_not(P_x))

\* A target whose quantifiers range over X and whose inner quantifier binds y,
\* (ALL x in X)(EX y in X)(x < y), with the equality X = N assumed.
X_eq_N == make_eq(X, N)
x_lt_y == make_rel("<", <<x, y>>)
forall_exists == make_forall("x", X, make_exists("y", X, x_lt_y))

\* The callers the model runs: each opens Proof(assumptions, target) and then
\* calls the proof's operations with arguments from its own small sets:
\* claims (besides the current targets), rule names,
\* instantiate_forall witnesses and register_rule calls.
Clients ==
    << [assumptions |-> <<x_eq_2, y_eq_3>>, target |-> and_target,
        claims |-> {x_eq_2, y_eq_3, make_and(y_eq_3, x_eq_2)},
        rule_names |-> {"ASSUMPTION", "AND", "CASES"},
        witnesses |-> {nullopt},
        registrations |-> {}],
       [assumptions |-> <<step_m_eq_m>>, target |-> nested_target,
        claims |-> {},
        rule_names |-> {"ASSUMPTION", "EQ", "INDUCTION"},
        witnesses |-> {nullopt},
        registrations |-> {}],
       [assumptions |-> <<forall_x_eq_5>>, target |-> domain_target,
        claims |-> {forall_x_eq_5, y_in_X, P_y},
        rule_names |-> {"ASSUMPTION", "FORALL", "CASES"},
        witnesses |-> {nullopt, make_constant("c")},
        registrations |-> {}],
       [assumptions |-> <<>>, target |-> lem_target,
        claims |-> {P_x},
        rule_names |-> {"LEM", "EQ", "ASSUMPTION"},
        witnesses |-> {nullopt},
        registrations |-> {<<"LEM", "excluded_middle_rule">>, <<"EQ", "assumption_rule">>}],
       [assumptions |-> <<X_eq_N>>, target |-> forall_exists,
        claims |-> {X_eq_N},
        rule_names |-> {"ASSUMPTION"},
        witnesses |-> {nullopt, y},
        registrations |-> {}] >>

VARIABLE client

\* A call of one of the free functions on its own, outside any Proof: the
\* function and its arguments, and what it returned (<<>> until it returns).
VARIABLES call, returned

allvars == <<vars, client, call, returned>>

NoCall == [fn |-> "", inputs |-> <<>>, claimed |-> make_rel("", <<>>)]

Claims == Range(targets) \cup Clients[client].claims

\* Dependency lists: none; the first two lines, in either order; a negative
\* index; the line count itself (the index of the line being added).
DepsPool == {<<>>, <<0, 1>>, <<1, 0>>, <<-1, 0>>, <<0, Len(lines)>>}

\* The names whose binding is not the constructor's.
registered_since_construction ==
    {n \in DOMAIN rules :
        n \notin DOMAIN Proof(<<>>, and_target).rules
        \/ rules[n] # Proof(<<>>, and_target).rules[n]}

\* ----------------------------------------------------------------- actions
\* The object takes the state the call left, and the caller sees its outcome.
Apply(op, res) ==
    /\ lines' = res.state.lines
    /\ assumptions' = res.state.assumptions
    /\ targets' = res.state.targets
    /\ active_target_idx' = res.state.active_target_idx
    /\ target_history' = res.state.target_history
    /\ rules' = res.state.rules
    /\ outcome' = [op |-> op, threw |-> res.err # ""]
    /\ client' = client
    /\ UNCHANGED <<call, returned>>

Init ==
    \E c \in DOMAIN Clients : LET sc == Clients[c] IN
        /\ client = c
        /\ lines = Proof(sc.assumptions, sc.target).lines
        /\ assumptions = Proof(sc.assumptions, sc.target).assumptions
        /\ targets = Proof(sc.assumptions, sc.target).targets
        /\ active_target_idx = Proof(sc.assumptions, sc.target).active_target_idx
        /\ target_history = Proof(sc.assumptions, sc.target).target_history
        /\ rules = Proof(sc.assumptions, sc.target).rules
        /\ outcome = [op |-> "Proof", threw |-> FALSE]
        /\ call = NoCall
        /\ returned = <<>>

AddLine ==
    \E claimed \in Claims, rule_name \in Clients[client].rule_names, deps \in DepsPool :
        LET res == add_line_to_proof(this, claimed, rule_name, deps)
        IN  /\ res.err = "" => Len(lines) < MaxLines
            /\ Apply("add_line_to_proof", res)

InstantiateForall ==
    \E requested_variable \in Clients[client].witnesses :
        LET res == instantiate_forall(this, requested_variable)
        IN  /\ res.err = "" => Len(target_history) < MaxHistory
            /\ Apply("instantiate_forall", res)

InstantiateImplication ==
    LET res == instantiate_implication(this)
    IN  /\ res.err = "" => Len(target_history) < MaxHistory
        /\ Apply("instantiate_implication", res)

InstantiateInduction ==
    LET res == instantiate_induction(this)
    IN  /\ res.err = "" => Len(target_history) < MaxHistory
        /\ Apply("instantiate_induction", res)

RewriteTargetUsingEquality ==
    \E equality_proof_line \in (-1)..Len(lines) :
        LET res == rewrite_target_using_equality(this, equality_proof_line)
        IN  /\ res.err = "" => Len(target_history) < MaxHistory
            /\ Apply("rewrite_target_using_equality", res)

RegisterRule ==
    \E r \in Clients[client].registrations :
        /\ Cardinality(registered_since_construction) < MaxRegistered
        /\ Apply("register_rule", Return(register_rule(this, r[1], r[2])))

Next ==
    \/ AddLine
    \/ InstantiateForall
    \/ InstantiateImplication
    \/ InstantiateInduction
    \/ RewriteTargetUsingEquality
    \/ RegisterRule

Spec == Init /\ [][Next]_allvars

\* ------------------------------------------------------------------ claims
\* The members a failed call must leave as they were.
ProofState == <<lines, assumptions, targets, active_target_idx, target_history, rules>>

\* The calls of add_line_to_proof the client can make in the current state.
AddLineCalls == Claims \X Clients[client].rule_names \X DepsPool

\* C1: a step in which add_line_to_proof throws (unknown rule, dependency
\* index out of range, or the verifier rejecting the claim) leaves lines,
\* assumptions, targets, active index, target history and rules unchanged.
C1_FailedAddLineLeavesState ==
    [][(outcome'.op = "add_line_to_proof" /\ outcome'.threw) => ProofState' = ProofState]_allvars

\* A failed add_line_to_proof on a proof that has lines and history, in a state
\* where each of the three kinds of failure is one of the client's calls.
C1_Witness ==
    /\ outcome = [op |-> "add_line_to_proof", threw |-> TRUE]
    /\ Len(lines) > 0
    /\ Len(target_history) > 0
    /\ \E c \in AddLineCalls : add_line_to_proof(this, c[1], c[2], c[3]).err = "Unknown rule"
    /\ \E c \in AddLineCalls :
            add_line_to_proof(this, c[1], c[2], c[3]).err = "Invalid dependency index"
    /\ \E c \in AddLineCalls :
            add_line_to_proof(this, c[1], c[2], c[3]).err
                \in {"Invalid assumption", "Claimed does not match AND result"}

\* C2: every step that changes the line log appends one line whose rule name is
\* registered, whose dependency indices all refer to lines already in the log,
\* and whose claim the registered verifier accepts on those lines' statements
\* taken in the cited order.
C2_LinesAcceptedByCitedRule ==
    [][lines' # lines =>
        /\ Len(lines') = Len(lines) + 1
        /\ SubSeq(lines', 1, Len(lines)) = lines
        /\ LET l == lines'[Len(lines')]
           IN  /\ l.justification \in DOMAIN rules
               /\ \A i \in 1..Len(l.dependencies) :
                      l.dependencies[i] \in 0..(Len(lines) - 1)
               /\ call_rule(rules[l.justification], assumptions,
                            [i \in 1..Len(l.dependencies) |->
                                lines[l.dependencies[i] + 1].statement],
                            l.statement).err = ""]_allvars

\* A line accepted by the AND rule on two cited lines.
C2_Witness ==
    /\ \E i \in 1..Len(lines) :
          /\ lines[i].justification = "AND"
          /\ lines[i].dependencies = <<0, 1>>
          /\ lines[i].statement = and_target
    /\ outcome = [op |-> "add_line_to_proof", threw |-> FALSE]

\* C3: a call citing a negative index or an index >= the line count fails, and
\* every dependency index stored in line i (counted from 0) is in 0..i-1.
C3_DependenciesPrecedeLine ==
    /\ \A c \in AddLineCalls :
          (\E i \in 1..Len(c[3]) : c[3][i] < 0 \/ c[3][i] >= Len(lines))
              => add_line_to_proof(this, c[1], c[2], c[3]).err # ""
    /\ \A n \in 1..Len(lines) :
          \A i \in 1..Len(lines[n].dependencies) :
              lines[n].dependencies[i] \in 0..(n - 2)

\* A third line citing the two before it, after a call citing the line count
\* failed.
C3_Witness ==
    /\ Len(lines) = 3
    /\ lines[3].dependencies = <<1, 0>>
    /\ outcome = [op |-> "add_line_to_proof", threw |-> TRUE]

\* C4: an accepted line whose statement equals a target removes one occurrence
\* of it, the first: the targets before and after that position are kept, in
\* order, and the count drops by exactly one, also when the statement occurs
\* more than once; an accepted line equal to no target leaves the targets as
\* they were.
C4_DischargeRemovesExactlyOne ==
    \A c \in AddLineCalls :
        LET res == add_line_to_proof(this, c[1], c[2], c[3])
            hits == {i \in 1..Len(targets) : same_string(targets[i], c[1])}
        IN  res.err = "" =>
                IF hits = {} THEN res.state.targets = targets
                ELSE /\ Len(res.state.targets) = Len(targets) - 1
                     /\ \E i \in hits :
                            res.state.targets =
                                SubSeq(targets, 1, i - 1) \o SubSeq(targets, i + 1, Len(targets))

\* The statement step_m_eq_m was a target twice (the fifth tactic, an
\* induction, grew two targets to three) and the line just added removed one:
\* two targets are left and the other occurrence still is one of them.
C4_Witness ==
    /\ outcome = [op |-> "add_line_to_proof", threw |-> FALSE]
    /\ Len(target_history) = 5
    /\ target_history[5] = <<forall_m, step_m_eq_m>>
    /\ lines[Len(lines)].statement = step_m_eq_m
    /\ targets = <<make_eq(zero, zero), step_m_eq_m>>

\* C5: whenever there are targets, the active index is the index of one.
C5_ActiveIndexInRange ==
    Len(targets) > 0 => active_target_idx < Len(targets)

\* A target was discharged at or before the active index while others remain.
C5_Witness ==
    /\ outcome = [op |-> "add_line_to_proof", threw |-> FALSE]
    /\ Len(target_history) >= 2
    /\ Len(targets) = 2
    /\ Len(target_history[Len(target_history)]) = 2
    /\ lines[Len(lines)].statement = make_eq(zero, zero)
    /\ targets[1] = step_m_eq_m
    /\ active_target_idx = 0

\* The tactic calls the client can make in the current state, with results.
TacticResults ==
    {instantiate_forall(this, w) : w \in Clients[client].witnesses}
        \cup {instantiate_implication(this), instantiate_induction(this)}
        \cup {rewrite_target_using_equality(this, n) : n \in (-1)..Len(lines)}

\* The active target, when there is one.
HasActive == active_target_idx < Len(targets)
Active == targets[active_target_idx + 1]

\* C6: a goal tactic that fails leaves the proof state unchanged, and the
\* tactics do fail on the named inputs: instantiate_forall and
\* instantiate_induction on an active target that is not a Forall,
\* instantiate_implication on one that is not an Implies,
\* rewrite_target_using_equality on a line index out of range or on a line that
\* is not an Equality.
C6_FailedTacticLeavesState ==
    /\ \A res \in TacticResults : res.err # "" => res.state = this
    /\ (HasActive /\ Active.k # "Forall") =>
          /\ \A w \in Clients[client].witnesses : instantiate_forall(this, w).err # ""
          /\ instantiate_induction(this).err # ""
    /\ (HasActive /\ Active.k # "Implies") => instantiate_implication(this).err # ""
    /\ \A n \in (-1)..Len(lines) :
          (n < 0 \/ n >= Len(lines) \/ lines[n + 1].statement.k # "Equality")
              => rewrite_target_using_equality(this, n).err # ""

\* A rewrite just failed on a proof with history, where line 0 is not an
\* equality, the line count is out of range, and the active target, an
\* equality, is neither a Forall nor an Implies: every named failure is one of
\* the client's calls.
C6_Witness ==
    /\ outcome = [op |-> "rewrite_target_using_equality", threw |-> TRUE]
    /\ Len(target_history) > 0
    /\ Len(lines) > 0
    /\ rewrite_target_using_equality(this, 0).err = "Selected line is not an equality"
    /\ rewrite_target_using_equality(this, Len(lines)).err = "Invalid equality line index"
    /\ HasActive /\ Active.k = "Equality"
    /\ instantiate_induction(this).err # ""
    /\ instantiate_implication(this).err # ""
    /\ instantiate_forall(this, nullopt).err # ""

\* C7 as stated: on an active target Forall(v, domain, P), instantiate_induction
\* replaces it with P[v := 0] and appends Forall(k, domain, P[v := k] ->
\* P[v := +(k, 1)]) over the domain of the target it was given; one target
\* more, active index as before.
C7_StepKeepsDomain ==
    (HasActive /\ Active.k = "Forall") =>
        LET res == instantiate_induction(this)
            v == make_variable(Active.name)
            P == Active.subs[1]
            succ == make_function("+", <<make_variable("k"), make_constant("1")>>)
            step == make_forall("k", Active.terms[1],
                        make_implies(substitute_in_formula(P, v, make_variable("k")),
                                     substitute_in_formula(P, v, succ)))
        IN  /\ res.err = ""
            /\ res.state.targets =
                  Append([targets EXCEPT ![active_target_idx + 1] =
                              substitute_in_formula(P, v, make_constant("0"))], step)
            /\ Len(res.state.targets) = Len(targets) + 1
            /\ res.state.active_target_idx = active_target_idx

\* C8 as stated: on an active target Forall(v, D, body), instantiate_forall with
\* witness w appends exactly one assumption, the relation (w in D) with D the
\* domain of that quantifier.
C8_MembershipInQuantifierDomain ==
    (HasActive /\ Active.k = "Forall") =>
        \A requested \in Clients[client].witnesses :
            LET res == instantiate_forall(this, requested)
                w == IF requested = nullopt THEN make_variable(Active.name) ELSE requested
            IN  /\ res.err = ""
                /\ res.state.assumptions =
                      Append(assumptions, make_rel(element_of, <<w, Active.terms[1]>>))

\* C9: on an active target Forall(v, D, body), instantiate_forall(w) replaces
\* the active entry of the targets by body with v substituted by w, w being the
\* caller's term or, without one, the variable named v; the other targets, the
\* number of targets, the active index and the lines stay as they were.
C9_ForallInstantiatesActiveOnly ==
    (HasActive /\ Active.k = "Forall") =>
        \A requested \in Clients[client].witnesses :
            LET res == instantiate_forall(this, requested)
                w == IF requested = nullopt THEN make_variable(Active.name) ELSE requested
            IN  /\ res.err = ""
                /\ Len(res.state.targets) = Len(targets)
                /\ \A i \in 1..Len(targets) :
                      res.state.targets[i] =
                          IF i = active_target_idx + 1
                          THEN substitute_in_formula(Active.subs[1],
                                                     make_variable(Active.name), w)
                          ELSE targets[i]
                /\ res.state.active_target_idx = active_target_idx
                /\ res.state.lines = lines

\* instantiate_forall was just called with the constant c on the target
\* "for all y in X, P(y) -> y = 5", and the target now speaks of c.
C9_Witness ==
    /\ outcome = [op |-> "instantiate_forall", threw |-> FALSE]
    /\ Len(target_history) = 1
    /\ target_history[1] = <<domain_target>>
    /\ targets = <<make_implies(make_rel("P", <<make_constant("c")>>),
                                make_eq(make_constant("c"), five))>>

\* C10: on an active target Implies(A, B), instantiate_implication appends A
\* to the assumptions and replaces the active target by B; the other targets,
\* the active index and the lines stay; and add_line_to_proof(A, "ASSUMPTION")
\* called next is accepted, the constructor's ASSUMPTION reading the
\* assumptions as they are at the call.
C10_AntecedentBecomesAssumption ==
    (HasActive /\ Active.k = "Implies" /\ rules["ASSUMPTION"] = "assumption_lambda") =>
        LET res == instantiate_implication(this)
            A == Active.subs[1]
            B == Active.subs[2]
        IN  /\ res.err = ""
            /\ res.state.assumptions = Append(assumptions, A)
            /\ res.state.targets = [targets EXCEPT ![active_target_idx + 1] = B]
            /\ res.state.active_target_idx = active_target_idx
            /\ res.state.lines = lines
            /\ LET next == add_line_to_proof(res.state, A, "ASSUMPTION", <<>>)
               IN  /\ next.err = ""
                   /\ next.state.lines =
                         Append(lines, [statement |-> A, justification |-> "ASSUMPTION",
                                        dependencies |-> <<>>])

\* P(y), antecedent of the target instantiate_implication split and no
\* assumption of the proof as constructed, is a line justified by ASSUMPTION.
C10_Witness ==
    /\ outcome = [op |-> "add_line_to_proof", threw |-> FALSE]
    /\ lines[Len(lines)] = [statement |-> P_y, justification |-> "ASSUMPTION",
                            dependencies |-> <<>>]
    /\ assumptions[Len(assumptions)] = P_y
    /\ targets = <<y_eq_5>>

\* Replacement of every subterm equal to l by r, as a tree operation: in a
\* term, and in every term position of a formula, quantifier domains included.
RECURSIVE ReplaceInTerm(_, _, _)
ReplaceInTerm(u, l, r) ==
    IF u = l THEN r
    ELSE IF u.k \in {"Function", "Tuple"}
    THEN [u EXCEPT !.args = [i \in 1..Len(u.args) |-> ReplaceInTerm(u.args[i], l, r)]]
    ELSE u

RECURSIVE ReplaceEverywhere(_, _, _)
ReplaceEverywhere(phi, l, r) ==
    [phi EXCEPT !.terms = [i \in 1..Len(phi.terms) |-> ReplaceInTerm(phi.terms[i], l, r)],
                !.subs = [i \in 1..Len(phi.subs) |-> ReplaceEverywhere(phi.subs[i], l, r)]]

\* l is a subterm of u; l is a subterm of some term position of phi.
RECURSIVE OccursInTerm(_, _)
OccursInTerm(l, u) ==
    \/ u = l
    \/ u.k \in {"Function", "Tuple"} /\ \E i \in 1..Len(u.args) : OccursInTerm(l, u.args[i])

RECURSIVE OccursInFormula(_, _)
OccursInFormula(l, phi) ==
    \/ \E i \in 1..Len(phi.terms) : OccursInTerm(l, phi.terms[i])
    \/ \E i \in 1..Len(phi.subs) : OccursInFormula(l, phi.subs[i])

\* C11 as stated: when line n holds an Equality l = r,
\* rewrite_target_using_equality(n) replaces the active target by the formula
\* in which every subterm equal to l, in every term position of every
\* subformula, quantifier domains included, is replaced by r; no l is left in
\* it unless r brings one; the other targets stay.
C11_RewriteReplacesEverywhere ==
    \A n \in 0..(Len(lines) - 1) :
        (HasActive /\ lines[n + 1].statement.k = "Equality") =>
            LET l == lines[n + 1].statement.terms[1]
                r == lines[n + 1].statement.terms[2]
                res == rewrite_target_using_equality(this, n)
            IN  /\ res.err = ""
                /\ res.state.targets =
                      [targets EXCEPT ![active_target_idx + 1] = ReplaceEverywhere(Active, l, r)]
                /\ ~OccursInTerm(l, r) =>
                      ~OccursInFormula(l, res.state.targets[active_target_idx + 1])

\* The names of the variables occurring in a term.
RECURSIVE VarsOfTerm(_)
VarsOfTerm(t) ==
    IF t.k = "Variable" THEN {t.name}
    ELSE UNION {VarsOfTerm(t.args[i]) : i \in 1..Len(t.args)}

\* The variable named v occurs free in phi.
RECURSIVE OccursFree(_, _)
OccursFree(v, phi) ==
    \/ \E i \in 1..Len(phi.terms) : v \in VarsOfTerm(phi.terms[i])
    \/ /\ ~(phi.k \in {"Forall", "Exists"} /\ phi.name = v)
       /\ \E i \in 1..Len(phi.subs) : OccursFree(v, phi.subs[i])

\* Some quantifier inside phi binds a variable of w, other than v, and has a
\* free occurrence of v in its scope: putting w for v there captures it.
RECURSIVE Capturing(_, _, _)
Capturing(phi, v, w) ==
    \/ /\ phi.k \in {"Forall", "Exists"}
       /\ phi.name # v
       /\ phi.name \in VarsOfTerm(w)
       /\ OccursFree(v, phi.subs[1])
    \/ /\ ~(phi.k \in {"Forall", "Exists"} /\ phi.name = v)
       /\ \E i \in 1..Len(phi.subs) : Capturing(phi.subs[i], v, w)

\* phi with w written at every free occurrence of the variable v, bound
\* variables not renamed: the captured formula when Capturing(phi, v, w).
RECURSIVE CapturedInstance(_, _, _)
CapturedInstance(phi, v, w) ==
    LET in_terms ==
            [i \in 1..Len(phi.terms) |-> ReplaceInTerm(phi.terms[i], make_variable(v), w)]
    IN  IF phi.k \in {"Forall", "Exists"} /\ phi.name = v
        THEN [phi EXCEPT !.terms = in_terms]
        ELSE [phi EXCEPT !.terms = in_terms,
                         !.subs = [i \in 1..Len(phi.subs) |->
                                       CapturedInstance(phi.subs[i], v, w)]]

\* C12 as stated: instantiation never captures. When the active target
\* Forall(v, D, body) is instantiated with a term w a variable of which is bound
\* by a quantifier of body with v free in its scope, the new target is not the
\* captured formula, and no variable of w is bound in it; and no line accepted
\* by the FORALL rule on (Forall(v, D, body), (e in D)) is the captured formula.
C12_InstantiationNeverCaptures ==
    /\ (HasActive /\ Active.k = "Forall") =>
          \A requested \in Clients[client].witnesses :
              LET w == IF requested = nullopt THEN make_variable(Active.name) ELSE requested
                  res == instantiate_forall(this, requested)
                  new_goal == res.state.targets[active_target_idx + 1]
              IN  (res.err = "" /\ Capturing(Active.subs[1], Active.name, w)) =>
                      /\ new_goal # CapturedInstance(Active.subs[1], Active.name, w)
                      /\ \A u \in VarsOfTerm(w) : OccursFree(u, new_goal)
    /\ \A c \in AddLineCalls :
          (c[2] = "FORALL" /\ add_line_to_proof(this, c[1], c[2], c[3]).err = "") =>
              LET forall == lines[c[3][1] + 1].statement
                  e == lines[c[3][2] + 1].statement.terms[1]
              IN  Capturing(forall.subs[1], forall.name, e) =>
                      c[1] # CapturedInstance(forall.subs[1], forall.name, e)

\* ------------------------------------------ free functions called on their own
MaxInputs == 2

\* Inputs for forall_rule: a Forall, membership facts in its domain and in
\* another, a relation that is no membership, a Forall whose body binds y.
y_in_N == make_rel(element_of, <<y, N>>)
forall_rule_inputs == {forall_x_eq_5, y_in_X, y_in_N, P_y, forall_exists}
forall_rule_claims ==
    {y_eq_5, make_eq(x, five), make_exists("y", X, make_rel("<", <<y, y>>))}

\* Inputs for induction_rule, after Example 3 of main: base cases, step cases
\* over N and over X, a step whose conclusion is not P(k + 1), a Forall that is
\* no implication; claims naming n, naming m, over X, with another right side.
n_var == make_variable("n")
zero_eq_zero == make_eq(zero, zero)
one_eq_one == make_eq(one, one)
step_over_X == make_forall("k", X, make_implies(make_eq(k, k), make_eq(k_plus_1, k_plus_1)))
step_not_succ == make_forall("k", N, make_implies(make_eq(k, k), make_eq(k, k)))
forall_n_eq_n == make_forall("n", N, make_eq(n_var, n_var))
induction_rule_inputs ==
    {zero_eq_zero, one_eq_one, step_m_eq_m, step_over_X, step_not_succ, forall_m}
induction_rule_claims ==
    {forall_n_eq_n, forall_m, make_forall("n", X, make_eq(n_var, n_var)),
     make_forall("n", N, make_eq(n_var, zero))}

\* Inputs for cases_rule, after the CASES example of main: f -> t, ~f -> t,
\* ~g -> t for another g, f -> t' for another t', and a formula that is no
\* implication.
f_implies_t == make_implies(P_x, y_eq_5)
not_f_implies_t == make_implies(make_not(P_x), y_eq_5)
cases_rule_inputs ==
    {f_implies_t, not_f_implies_t, make_implies(make_not(P_y), y_eq_5),
     make_implies(P_x, x_eq_2), y_eq_5}
cases_rule_claims == {y_eq_5, x_eq_2}

\* Pairs for the to_string comparison: trees that differ in the variant of a
\* node (Variable x / Constant x, Equality / Relation "="), in the elements of
\* a Tuple, or in a leaf.
compared_terms ==
    {x, make_constant("x"), y, make_tuple(<<x>>), make_tuple(<<y>>), make_function("f", <<x>>)}
compared_formulas ==
    {make_eq(x, five), make_eq(make_constant("x"), five), make_rel("=", <<x, five>>),
     y_eq_5, make_rel("P", <<make_tuple(<<x>>)>>), make_rel("P", <<make_tuple(<<y>>)>>)}

\* The argument vectors of at most MaxInputs formulas from a set.
input_vectors(pool) == UNION {[1..len -> pool] : len \in 0..MaxInputs}

rule_calls(fn, pool, claims) ==
    {[fn |-> fn, inputs |-> i, claimed |-> c] : i \in input_vectors(pool), c \in claims}

comparisons(fn, pool) ==
    {[fn |-> fn, inputs |-> <<a, b>>, claimed |-> NoCall.claimed] : a \in pool, b \in pool}

\* The arguments of substitute_in_term and substitute_in_formula: a subject,
\* the variable and the term put in its place.
substituted_terms ==
    {x, y, make_constant("x"), make_function("f", <<x, y>>), make_tuple(<<x, y>>),
     make_function("f", <<make_tuple(<<x>>), x>>)}
substituted_formulas ==
    {make_eq(x, y), P_x, make_rel("P", <<make_tuple(<<x>>)>>), make_not(P_x),
     make_or(P_x, P_y), make_and(P_y, P_x), make_implies(P_x, make_eq(y, x)),
     make_forall("x", N, P_x), make_forall("y", N, make_eq(x, y)),
     make_exists("x", N, P_x), make_exists("y", N, make_eq(make_tuple(<<x>>), y))}
substitutes == {five, make_function("g", <<y>>)}

substitutions(fn, pool) ==
    {[fn |-> fn, inputs |-> <<u, v, t>>, claimed |-> NoCall.claimed] :
        u \in pool, v \in {x, y}, t \in substitutes}

FunctionCalls ==
    rule_calls("forall_rule", forall_rule_inputs, forall_rule_claims)
        \cup rule_calls("induction_rule", induction_rule_inputs, induction_rule_claims)
        \cup rule_calls("cases_rule", cases_rule_inputs, cases_rule_claims)
        \cup comparisons("Formula::to_string", compared_formulas)
        \cup comparisons("Term::to_string", compared_terms)
        \cup substitutions("substitute_in_term", substituted_terms)
        \cup substitutions("substitute_in_formula", substituted_formulas)

\* A call is chosen; no Proof takes part, the members are those of a newly
\* constructed one and stay so.
FunctionInit ==
    /\ call \in FunctionCalls
    /\ returned = <<>>
    /\ client = 4
    /\ lines = Proof(<<>>, lem_target).lines
    /\ assumptions = Proof(<<>>, lem_target).assumptions
    /\ targets = Proof(<<>>, lem_target).targets
    /\ active_target_idx = Proof(<<>>, lem_target).active_target_idx
    /\ target_history = Proof(<<>>, lem_target).target_history
    /\ rules = Proof(<<>>, lem_target).rules
    /\ outcome = [op |-> "Proof", threw |-> FALSE]

\* The called function returns value.
Returns(value) ==
    /\ returned = <<>>
    /\ returned' = <<value>>
    /\ UNCHANGED <<vars, client, call>>

ForallRule ==
    /\ call.fn = "forall_rule"
    /\ Returns(forall_rule(call.inputs, call.claimed))

InductionRule ==
    /\ call.fn = "induction_rule"
    /\ Returns(induction_rule(call.inputs, call.claimed))

CasesRule ==
    /\ call.fn = "cases_rule"
    /\ Returns(cases_rule(call.inputs, call.claimed))

CompareFormulas ==
    /\ call.fn = "Formula::to_string"
    /\ Returns(same_string(call.inputs[1], call.inputs[2]))

CompareTerms ==
    /\ call.fn = "Term::to_string"
    /\ Returns(same_term_string(call.inputs[1], call.inputs[2]))

SubstituteInTerm ==
    /\ call.fn = "substitute_in_term"
    /\ Returns(substitute_in_term(call.inputs[1], call.inputs[2], call.inputs[3]))

SubstituteInFormula ==
    /\ call.fn = "substitute_in_formula"
    /\ Returns(substitute_in_formula(call.inputs[1], call.inputs[2], call.inputs[3]))

FunctionNext ==
    \/ ForallRule
    \/ InductionRule
    \/ CasesRule
    \/ CompareFormulas
    \/ CompareTerms
    \/ SubstituteInTerm
    \/ SubstituteInFormula

FunctionSpec == FunctionInit /\ [][FunctionNext]_allvars

\* The call of fn has returned.
Returned(fn) == call.fn = fn /\ returned # <<>>

\* C13 as stated: the equality test of rule matching, target discharge and
\* pattern matching is structural equality: two formulas, and two terms,
\* compare equal exactly when they are the same tree (same variant at every
\* node, equal fields); Variable x and Constant x, Equality(a, b) and Relation
\* "="(a, b), Tuples with different elements compare unequal.
C13_EqualityIsStructural ==
    /\ Returned("Formula::to_string") => (returned[1] <=> call.inputs[1] = call.inputs[2])
    /\ Returned("Term::to_string") => (returned[1] <=> call.inputs[1] = call.inputs[2])

\* C14: forall_rule accepts a claim exactly when it is given two inputs, the
\* first a Forall(v, D, body), the second a 2-argument relation named "in",
\* (e in D'), with D' = D, and the claim is body with v substituted by e; so it
\* rejects when D' differs from D though the claim matches, and it rejects the
\* same two inputs given in the opposite order.
C14_ForallRuleAcceptsExactly ==
    Returned("forall_rule") =>
        LET inputs == call.inputs
            claimed == call.claimed
            accepted == returned[1].err = ""
        IN  /\ accepted <=>
                  /\ Len(inputs) = 2
                  /\ inputs[1].k = "Forall"
                  /\ inputs[2].k = "Relation"
                  /\ inputs[2].name = element_of
                  /\ Len(inputs[2].terms) = 2
                  /\ inputs[2].terms[2] = inputs[1].terms[1]
                  /\ claimed = substitute_in_formula(inputs[1].subs[1],
                                                     make_variable(inputs[1].name),
                                                     inputs[2].terms[1])
            /\ accepted => returned[1].value = claimed
            /\ accepted => forall_rule(<<inputs[2], inputs[1]>>, claimed).err # ""

\* forall_rule has rejected y = 5 from (ALL x in X)(x = 5) and (y in N): the
\* claim is the instance, the membership is in another domain.
C14_Witness ==
    /\ Returned("forall_rule")
    /\ call.inputs = <<forall_x_eq_5, y_in_N>>
    /\ call.claimed = y_eq_5
    /\ returned[1].err # ""
    /\ forall_rule(<<forall_x_eq_5, y_in_X>>, y_eq_5).err = ""

\* C15: induction_rule, given base B and step Forall(k, D, Pk -> Q), accepts a
\* claim only if B is Pk[k := 0], Q is Pk[k := +(k, 1)] and the claim is a
\* Forall binding n whose body is Pk[k := n]; a claim binding another name,
\* a claim with another body, a base or a step conclusion off the schema are
\* rejected.
C15_InductionRuleSchema ==
    (Returned("induction_rule") /\ returned[1].err = "") =>
        LET base == call.inputs[1]
            step == call.inputs[2]
            var_term == make_variable(step.name)
            Pk == step.subs[1].subs[1]
            Q == step.subs[1].subs[2]
        IN  /\ Len(call.inputs) = 2
            /\ step.k = "Forall"
            /\ step.subs[1].k = "Implies"
            /\ base = substitute_in_formula(Pk, var_term, make_constant("0"))
            /\ Q = substitute_in_formula(Pk, var_term,
                      make_function("+", <<var_term, make_constant("1")>>))
            /\ call.claimed.k = "Forall"
            /\ call.claimed.name = "n"
            /\ call.claimed.subs[1] = substitute_in_formula(Pk, var_term, make_variable("n"))
            /\ returned[1].value = call.claimed

\* induction_rule has accepted (ALL n in N)(n = n) from 0 = 0 and the step
\* (ALL k in N)(k = k -> k + 1 = k + 1); on the same inputs the claim binding m
\* and the claim with right side 0 are rejected, and so is the base 1 = 1 and
\* the step concluding k = k.
C15_Witness ==
    /\ Returned("induction_rule")
    /\ call.inputs = <<zero_eq_zero, step_m_eq_m>>
    /\ call.claimed = forall_n_eq_n
    /\ returned[1].err = ""
    /\ induction_rule(call.inputs, forall_m).err # ""
    /\ induction_rule(call.inputs, make_forall("n", N, make_eq(n_var, zero))).err # ""
    /\ induction_rule(<<one_eq_one, step_m_eq_m>>, forall_n_eq_n).err # ""
    /\ induction_rule(<<zero_eq_zero, step_not_succ>>, forall_n_eq_n).err # ""

\* C16 as stated: the conclusion induction_rule accepts is quantified over the
\* domain of its step input: from a base and a step Forall(k, D, Pk -> Psucc)
\* on the schema, the claim Forall(n, D, Pk[k := n]) is accepted, and every
\* accepted claim has that domain D, whatever term D is.
C16_ConclusionOverStepDomain ==
    Returned("induction_rule") =>
        /\ returned[1].err = "" => call.claimed.terms[1] = call.inputs[2].terms[1]
        /\ (Len(call.inputs) = 2 /\ call.inputs[2].k = "Forall"
                /\ call.inputs[2].subs[1].k = "Implies") =>
              LET step == call.inputs[2]
                  var_term == make_variable(step.name)
                  Pk == step.subs[1].subs[1]
              IN  ( /\ call.inputs[1] = substitute_in_formula(Pk, var_term, make_constant("0"))
                    /\ step.subs[1].subs[2] =
                          substitute_in_formula(Pk, var_term,
                              make_function("+", <<var_term, make_constant("1")>>))
                    /\ call.claimed =
                          make_forall("n", step.terms[1],
                              substitute_in_formula(Pk, var_term, make_variable("n"))) )
                  => returned[1].err = ""

\* C17: cases_rule accepts a claim exactly when it is given two inputs, both
\* Implies, (f -> t1) and (g -> t2), with g = Not(f) and t1 and t2 both the
\* claim; it rejects whenever the second antecedent is not Not(f).
C17_CasesRuleAcceptsExactly ==
    Returned("cases_rule") =>
        LET inputs == call.inputs
            accepted == returned[1].err = ""
        IN  /\ accepted <=>
                  /\ Len(inputs) = 2
                  /\ inputs[1].k = "Implies"
                  /\ inputs[2].k = "Implies"
                  /\ inputs[2].subs[1] = make_not(inputs[1].subs[1])
                  /\ inputs[1].subs[2] = call.claimed
                  /\ inputs[2].subs[2] = call.claimed
            /\ accepted => returned[1].value = call.claimed

\* cases_rule has rejected y = 5 from (P(x) -> y = 5) and (~P(y) -> y = 5),
\* the second antecedent negating another formula; with (~P(x) -> y = 5) as
\* second input it accepts.
C17_Witness ==
    /\ Returned("cases_rule")
    /\ call.inputs = <<f_implies_t, make_implies(make_not(P_y), y_eq_5)>>
    /\ call.claimed = y_eq_5
    /\ returned[1].err # ""
    /\ cases_rule(<<f_implies_t, not_f_implies_t>>, y_eq_5).err = ""

\* C18 as stated: cases_rule is symmetric in its two inputs: a claim it accepts
\* from <<(f -> t), (~f -> t)>> it accepts from <<(~f -> t), (f -> t)>>.
C18_CasesRuleSymmetric ==
    (Returned("cases_rule") /\ returned[1].err = "") =>
        cases_rule(<<call.inputs[2], call.inputs[1]>>, call.claimed).err = ""

\* The goal tactics.
Tactics ==
    {"instantiate_forall", "instantiate_implication", "instantiate_induction",
     "rewrite_target_using_equality"}

\* C19: a goal tactic that succeeds pushes one entry on the target history, the
\* whole target list as it was before the tactic changed it; every other step
\* (add_line_to_proof, register_rule, a failed tactic) leaves the history as it
\* was, so no entry is ever removed or altered.
C19_HistorySnapshotsTargets ==
    [][IF outcome'.op \in Tactics /\ ~outcome'.threw
       THEN target_history' = Append(target_history, targets)
       ELSE target_history' = target_history]_allvars

\* instantiate_forall has just succeeded on a proof with two targets and an
\* earlier history entry: the entry it pushed is the two targets as they were,
\* which the targets no longer are.
C19_Witness ==
    /\ outcome = [op |-> "instantiate_forall", threw |-> FALSE]
    /\ Len(target_history) >= 2
    /\ Len(target_history[Len(target_history)]) = 2
    /\ target_history[Len(target_history)] # targets
    /\ target_history[Len(target_history)][2] = targets[2]

\* C20: the line log is append-only: in every step the lines already in the log
\* stay, each at its index and as it was; the log changes exactly in the steps
\* of a successful add_line_to_proof, which put one line at the index equal to
\* the previous line count; tactics leave the log unchanged.
C20_LinesAppendOnly ==
    [][ /\ Len(lines') >= Len(lines)
        /\ \A i \in 1..Len(lines) : lines'[i] = lines[i]
        /\ IF outcome'.op = "add_line_to_proof" /\ ~outcome'.threw
           THEN Len(lines') = Len(lines) + 1
           ELSE lines' = lines ]_allvars

\* A tactic has succeeded on a proof whose log holds three lines, the third
\* citing the first two.
C20_Witness ==
    /\ Len(lines) = 3
    /\ lines[3].dependencies = <<0, 1>>
    /\ outcome.op \in Tactics
    /\ ~outcome.threw

\* C21: is_valid() is true exactly when the target list is empty; the proof as
\* constructed is not valid; and validity begins in a step of an accepted
\* add_line_to_proof that removes the one target left.
C21_ValidIffNoTargets ==
    /\ [](is_valid(this) <=> targets = <<>>)
    /\ [](outcome.op = "Proof" => ~is_valid(this))
    /\ [][(~is_valid(this) /\ is_valid(this)') =>
            /\ outcome' = [op |-> "add_line_to_proof", threw |-> FALSE]
            /\ Len(targets) = 1
            /\ same_string(lines'[Len(lines')].statement, targets[1])]_allvars

\* The AND line has just removed the only target: the proof is valid.
C21_Witness ==
    /\ is_valid(this)
    /\ outcome = [op |-> "add_line_to_proof", threw |-> FALSE]
    /\ Len(lines) = 3
    /\ lines[3].statement = and_target
    /\ lines[3].justification = "AND"
    /\ target_history = <<>>

\* C22: with no targets, instantiate_forall, instantiate_implication,
\* instantiate_induction, rewrite_target_using_equality and get_active_target
\* each raise an error, and the tactics leave the proof state unchanged.
C22_NoTargetsNoTactic ==
    targets = <<>> =>
        /\ \A res \in TacticResults : res.err # "" /\ res.state = this
        /\ get_active_target(this).err # ""

\* A tactic has just failed on a valid proof with lines in its log.
C22_Witness ==
    /\ targets = <<>>
    /\ outcome.op \in Tactics
    /\ outcome.threw
    /\ Len(lines) > 0
    /\ rewrite_target_using_equality(this, 0).err = "No active goals to rewrite"

\* ------------------------------------------------------------ the driver
\* main() runs its examples one after another, each on a Proof of its own and
\* none inside a try block: a call that throws ends the program.  An example
\* is the record [fn, example, assumptions, target, calls]; `call` holds the
\* example under execution and `returned` the error text of every call made
\* so far ("" for a call that returned).
\* text_utils::element_of and text_utils::plus come from a header outside the
\* sources at hand; they are taken to be the glyphs the kernel itself writes
\* (proof.cpp:83, 140).
text_utils_element_of == element_of
text_utils_plus == "+"

AddLineCall(claimed, rule_name, deps) ==
    [op |-> "add_line_to_proof", claimed |-> claimed, rule_name |-> rule_name,
     deps |-> deps]
RegisterRuleCall(name, rule) == [op |-> "register_rule", name |-> name, rule |-> rule]
InstantiateForallCall(requested_variable) ==
    [op |-> "instantiate_forall", requested_variable |-> requested_variable]
InstantiateImplicationCall == [op |-> "instantiate_implication"]
InstantiateInductionCall == [op |-> "instantiate_induction"]
RewriteCall(equality_proof_line) ==
    [op |-> "rewrite_target_using_equality", equality_proof_line |-> equality_proof_line]

\* Example 1 for assumptions A, B and the dependency list of its AND line.
and_example(A, B, deps) ==
    [fn |-> "main", example |-> "AND", assumptions |-> <<A, B>>,
     target |-> make_and(A, B),
     calls |-> << AddLineCall(A, "ASSUMPTION", <<>>),
                  AddLineCall(B, "ASSUMPTION", <<>>),
                  AddLineCall(make_and(A, B), "AND", deps) >>]

\* Example 4 for a formula P and the formula claimed by LEM; with before = 1
\* an EQ line is added first and cited by the LEM line.
lem_example(P, claimed, before) ==
    [fn |-> "main", example |-> "LEM", assumptions |-> <<>>,
     target |-> make_or(P, make_not(P)),
     calls |-> << RegisterRuleCall("LEM", "excluded_middle_rule") >>
               \o (IF before = 1
                   THEN << AddLineCall(make_eq(zero, zero), "EQ", <<>>),
                           AddLineCall(claimed, "LEM", <<0>>) >>
                   ELSE << AddLineCall(claimed, "LEM", <<>>) >>)]

\* The induction proof with tactics: sum(n) = n.
sum_fn(t) == make_function("sum", <<t>>)
sum_axiom_base == make_eq(sum_fn(zero), zero)
sum_k_plus_1 == sum_fn(k_plus_1)
sum_k_plus_1_def == make_function("+", <<sum_fn(k), one>>)
recursive_axiom_inner == make_eq(sum_k_plus_1, sum_k_plus_1_def)
sum_axiom_recursive == make_forall("k", N, recursive_axiom_inner)
sum_k_eq_k == make_eq(sum_fn(k), k)
sum_k1_eq_k1 == make_eq(sum_fn(k_plus_1), k_plus_1)
step_inner == make_implies(sum_k_eq_k, sum_k1_eq_k1)
sum_step == make_forall("k", N, step_inner)
sum_target == make_forall("n", N, make_eq(sum_fn(make_variable("n")), make_variable("n")))
k_plus_one == make_function(text_utils_plus, <<k, one>>)

sum_example ==
    [fn |-> "main", example |-> "SUM",
     assumptions |-> <<sum_axiom_base, sum_axiom_recursive>>,
     target |-> sum_target,
     calls |-> << InstantiateInductionCall,
                  AddLineCall(sum_axiom_base, "ASSUMPTION", <<>>),
                  AddLineCall(sum_axiom_recursive, "ASSUMPTION", <<>>),
                  InstantiateForallCall(nullopt),
                  AddLineCall(make_rel(text_utils_element_of, <<k, N>>), "ASSUMPTION", <<>>),
                  InstantiateImplicationCall,
                  AddLineCall(recursive_axiom_inner, "FORALL", <<1, 2>>),
                  RewriteCall(3),
                  AddLineCall(make_eq(sum_fn(k), k), "ASSUMPTION", <<>>),
                  RewriteCall(4),
                  AddLineCall(make_eq(k_plus_one, k_plus_one), "EQ", <<>>) >>]

\* The formulas the examples are run with.
example_formulas == {x_eq_2, y_eq_3, P_x, make_not(P_x), forall_m, x_lt_y}
lem_formulas == {P_x, x_eq_2}
lem_claims ==
    {make_or(P, make_not(Q)) : P \in lem_formulas, Q \in lem_formulas}
    \cup {make_or(make_not(P), P) : P \in lem_formulas}
    \cup {make_and(P, make_not(P)) : P \in lem_formulas}
    \cup {make_or(P, P) : P \in lem_formulas}

MainExamples ==
    {and_example(A, B, deps) :
        A \in example_formulas, B \in example_formulas, deps \in {<<0, 1>>, <<1, 0>>}}
    \cup {lem_example(P, claimed, before) :
            P \in lem_formulas, claimed \in lem_claims, before \in {0, 1}}
    \cup {sum_example}

MainInit ==
    /\ call \in MainExamples
    /\ returned = <<>>
    /\ client = 1
    /\ lines = Proof(call.assumptions, call.target).lines
    /\ assumptions = Proof(call.assumptions, call.target).assumptions
    /\ targets = Proof(call.assumptions, call.target).targets
    /\ active_target_idx = Proof(call.assumptions, call.target).active_target_idx
    /\ target_history = Proof(call.assumptions, call.target).target_history
    /\ rules = Proof(call.assumptions, call.target).rules
    /\ outcome = [op |-> "Proof", threw |-> FALSE]

\* The next statement of the example, if the program is still running.
Running(op) ==
    /\ ~outcome.threw
    /\ Len(returned) < Len(call.calls)
    /\ call.calls[Len(returned) + 1].op = op
NextCall == call.calls[Len(returned) + 1]

Executes(op, res) ==
    /\ lines' = res.state.lines
    /\ assumptions' = res.state.assumptions
    /\ targets' = res.state.targets
    /\ active_target_idx' = res.state.active_target_idx
    /\ target_history' = res.state.target_history
    /\ rules' = res.state.rules
    /\ outcome' = [op |-> op, threw |-> res.err # ""]
    /\ returned' = Append(returned, res.err)
    /\ UNCHANGED <<client, call>>

MainAddLine ==
    /\ Running("add_line_to_proof")
    /\ Executes("add_line_to_proof",
                add_line_to_proof(this, NextCall.claimed, NextCall.rule_name, NextCall.deps))

MainRegisterRule ==
    /\ Running("register_rule")
    /\ Executes("register_rule", Return(register_rule(this, NextCall.name, NextCall.rule)))

MainInstantiateForall ==
    /\ Running("instantiate_forall")
    /\ Executes("instantiate_forall", instantiate_forall(this, NextCall.requested_variable))

MainInstantiateImplication ==
    /\ Running("instantiate_implication")
    /\ Executes("instantiate_implication", instantiate_implication(this))

MainInstantiateInduction ==
    /\ Running("instantiate_induction")
    /\ Executes("instantiate_induction", instantiate_induction(this))

MainRewriteTargetUsingEquality ==
    /\ Running("rewrite_target_using_equality")
    /\ Executes("rewrite_target_using_equality",
                rewrite_target_using_equality(this, NextCall.equality_proof_line))

MainNext ==
    \/ MainAddLine
    \/ MainRegisterRule
    \/ MainInstantiateForall
    \/ MainInstantiateImplication
    \/ MainInstantiateInduction
    \/ MainRewriteTargetUsingEquality

MainSpec == MainInit /\ [][MainNext]_allvars

\* The example has run to its last statement.
Finished(example) ==
    /\ call.example = example
    /\ Len(returned) = Len(call.calls)

\* C23: for any two formulas A and B the proof of And(A, B) from {A, B} is
\* completed by add_line(A, ASSUMPTION), add_line(B, ASSUMPTION),
\* add_line(And(A, B), AND, deps): the two assumption lines are accepted, the
\* proof is not valid before the third call, the third call is accepted
\* exactly when the cited lines form And(dep0, dep1) in the cited order, as
\* they do for deps = [0, 1], and then the proof is valid with no targets.
C23_AndProofCompletes ==
    call.example = "AND" =>
        LET deps == call.calls[3].deps
            cited(i) == lines[deps[i] + 1].statement
        IN  /\ \A i \in 1..Len(returned) : i < 3 => returned[i] = ""
            /\ Len(returned) < 3 => ~is_valid(this) /\ Len(lines) = Len(returned)
            /\ Len(returned) = 3 =>
                /\ returned[3] = "" <=> make_and(cited(1), cited(2)) = call.target
                /\ deps = <<0, 1>> => returned[3] = ""
                /\ returned[3] = "" =>
                    /\ is_valid(this)
                    /\ targets = <<>>
                    /\ lines[3].statement = call.target
                /\ returned[3] # "" => ~is_valid(this) /\ Len(lines) = 2

\* The example has run with two different assumptions and dependencies [0, 1].
C23_Witness ==
    /\ Finished("AND")
    /\ call.assumptions[1] # call.assumptions[2]
    /\ call.calls[3].deps = <<0, 1>>
    /\ returned = <<"", "", "">>
    /\ is_valid(this)

\* C24: the proof of Or(P, Not(P)) from no assumptions is valid as soon as the
\* target is added by LEM with no dependencies; a LEM line is accepted exactly
\* when it cites no dependency and claims Or(P, Not(Q)) with P equal to Q.
C24_ExcludedMiddleCompletes ==
    call.example = "LEM" =>
        LET last == Len(call.calls)
            lem == call.calls[last]
            schema == /\ lem.claimed.k = "Or"
                      /\ lem.claimed.subs[2].k = "Not"
                      /\ lem.claimed.subs[1] = lem.claimed.subs[2].subs[1]
        IN  /\ \A i \in 1..Len(returned) : i < last => returned[i] = ""
            /\ Len(returned) < last => ~is_valid(this)
            /\ Len(returned) = last =>
                /\ returned[last] = "" <=> (lem.deps = <<>> /\ schema)
                /\ (lem.deps = <<>> /\ lem.claimed = call.target) =>
                    /\ returned[last] = ""
                    /\ is_valid(this)
                    /\ targets = <<>>
                    /\ Len(lines) = 1
                /\ returned[last] # "" => ~is_valid(this)

\* The example has run as in main: LEM registered, the target added by LEM.
C24_Witness ==
    /\ Finished("LEM")
    /\ call.calls[Len(call.calls)] = AddLineCall(call.target, "LEM", <<>>)
    /\ returned = <<"", "">>
    /\ is_valid(this)
    /\ lines[1].justification = "LEM"

RECURSIVE VariableReplaced(_, _, _)
\* u with every Variable leaf named v replaced by t, through Function and
\* Tuple arguments.
VariableReplaced(u, v, t) ==
    CASE u.k = "Variable" -> IF u.name = v THEN t ELSE u
      [] u.k = "Constant" -> u
      [] u.k \in {"Function", "Tuple"} ->
            [u EXCEPT !.args = [i \in 1..Len(u.args) |-> VariableReplaced(u.args[i], v, t)]]

RECURSIVE VariableReplacedInFormula(_, _, _)
\* phi with v replaced by t in every term and through every connective; a
\* quantified subformula binding v is left as it is, and so is the domain of
\* a quantifier.
VariableReplacedInFormula(phi, v, t) ==
    IF phi.k \in {"Forall", "Exists"}
    THEN IF phi.name = v THEN phi
         ELSE [phi EXCEPT !.subs = <<VariableReplacedInFormula(phi.subs[1], v, t)>>]
    ELSE [phi EXCEPT
            !.terms = [i \in 1..Len(phi.terms) |-> VariableReplaced(phi.terms[i], v, t)],
            !.subs = [i \in 1..Len(phi.subs) |-> VariableReplacedInFormula(phi.subs[i], v, t)]]

\* C25: substitute_in_term and substitute_in_formula return, for every term
\* and formula built from the constructors, the tree in which every Variable
\* leaf named v is replaced by t, through Function and Tuple arguments and
\* every connective, a quantified subformula binding v being returned as it is.
C25_SubstitutionIsTotal ==
    /\ Returned("substitute_in_term") =>
            returned[1] = VariableReplaced(call.inputs[1], call.inputs[2].name, call.inputs[3])
    /\ Returned("substitute_in_formula") =>
            returned[1] =
                VariableReplacedInFormula(call.inputs[1], call.inputs[2].name, call.inputs[3])

\* C26: in the induction proof of sum(n) = n the split leaves [base, step]
\* with the base case active; the line equal to the base case discharges it
\* and the step case is then the active target; instantiate_forall,
\* instantiate_implication and the two rewrites transform the step case; the
\* proof is not valid before the line equal to the transformed step target
\* is added, and the driver's last call leaves is_valid() true.
C26_StepCaseAfterBase ==
    call.example = "SUM" =>
        LET done == Len(returned)
        IN  /\ \A i \in 1..done : returned[i] = ""
            /\ active_target_idx = 0
            /\ done = 0 => targets = <<sum_target>>
            /\ done = 1 => targets = <<sum_axiom_base, sum_step>>
            /\ done \in 2..3 => targets = <<sum_step>>
            /\ done \in 4..5 => targets = <<step_inner>>
            /\ done \in 6..7 => targets = <<sum_k1_eq_k1>>
            /\ done \in 8..9 => targets = <<make_eq(sum_k_plus_1_def, k_plus_1)>>
            /\ done = 10 => targets = <<make_eq(k_plus_1, k_plus_1)>>
            /\ done < 11 => ~is_valid(this) /\ HasActive /\ Active = targets[1]
            /\ done = 11 =>
                /\ is_valid(this)
                /\ lines[6].statement = make_eq(k_plus_1, k_plus_1)
                /\ Len(target_history) = 5

\* The driver has run to its last call and the proof is valid.
C26_Witness ==
    /\ Finished("SUM")
    /\ Len(returned) = 11
    /\ is_valid(this)
    /\ Len(lines) = 6
    /\ target_history[2] = <<sum_step>>

\* C27: the active target index is 0 in every reachable state (no operation
\* increments it and the decrement in add_line_to_proof is guarded by > 0),
\* so the active target is always the first pending target.
C27_ActiveIndexIsZero ==
    /\ active_target_idx = 0
    /\ targets # <<>> => get_active_target(this) = [err |-> "", value |-> targets[1]]
    /\ \A c \in AddLineCalls :
        add_line_to_proof(this, c[1], c[2], c[3]).state.active_target_idx = 0

\* The first of three targets has been discharged after two splits: the
\* index is still 0 and the former second target is the active one.
C27_Witness ==
    /\ outcome = [op |-> "add_line_to_proof", threw |-> FALSE]
    /\ Len(target_history) = 2
    /\ Len(targets) = 2
    /\ Len(target_history[2]) = 2
    /\ targets[1] = target_history[2][2]
    /\ active_target_idx = 0

\* C28: validity is stable: once the target list is empty no operation makes
\* it non-empty; the number of targets grows only in instantiate_induction,
\* by exactly one, and shrinks only in add_line_to_proof, by exactly one;
\* every other step leaves the number as it is.
C28_ValidityIsStable ==
    [][ /\ is_valid(this) => is_valid(this)'
        /\ Len(targets') > Len(targets) =>
            /\ outcome' = [op |-> "instantiate_induction", threw |-> FALSE]
            /\ Len(targets') = Len(targets) + 1
        /\ Len(targets') < Len(targets) =>
            /\ outcome' = [op |-> "add_line_to_proof", threw |-> FALSE]
            /\ Len(targets') = Len(targets) - 1
        /\ (is_valid(this) /\ outcome'.op \in Tactics) =>
            /\ outcome'.threw
            /\ this' = this ]_allvars

\* A line has been added to a proof that was already valid: it stays valid.
C28_Witness ==
    /\ is_valid(this)
    /\ outcome = [op |-> "add_line_to_proof", threw |-> FALSE]
    /\ Len(lines) >= 2
    /\ \E i \in 1..(Len(lines) - 1) : lines[i].statement = Clients[client].target

\* C29: a constructed Proof has exactly the rules ASSUMPTION, FORALL, EQ and
\* AND; an add_line_to_proof citing LEM, CASES or INDUCTION fails with the
\* unknown-rule error and changes nothing as long as register_rule has not
\* been called for that name, and no longer fails so afterwards;
\* register_rule binds the name to the given verifier, replacing the one it
\* had, for the add_line calls that follow, and leaves the line log alone.
C29_RegistryOfRules ==
    /\ [](outcome.op = "Proof" => DOMAIN rules = {"ASSUMPTION", "FORALL", "EQ", "AND"})
    /\ [](\A claimed \in Claims, name \in {"LEM", "CASES", "INDUCTION"}, deps \in DepsPool :
            LET res == add_line_to_proof(this, claimed, name, deps)
            IN  IF name \in registered_since_construction
                THEN res.err # "Unknown rule"
                ELSE res.err = "Unknown rule" /\ res.state = this)
    /\ [](\A i \in 1..Len(lines) :
            (lines[i].justification = "EQ" /\ lines[i].statement.k # "Equality")
                => rules["EQ"] = "assumption_rule")
    /\ [][outcome'.op = "register_rule" =>
            /\ lines' = lines /\ targets' = targets /\ assumptions' = assumptions
            /\ \E r \in Clients[client].registrations :
                /\ r[1] \in DOMAIN rules'
                /\ rules'[r[1]] = r[2]
                /\ \A n \in DOMAIN rules' \ {r[1]} : n \in DOMAIN rules /\ rules'[n] = rules[n]
                /\ \A claimed \in Claims :
                    add_line_to_proof(this', claimed, r[1], <<>>).err =
                        call_rule(r[2], assumptions, <<>>, claimed).err]_allvars

\* EQ has been registered again with assumption_rule as its verifier, and a
\* line that eq_rule rejects has been accepted under the name EQ.
C29_Witness ==
    /\ rules["EQ"] = "assumption_rule"
    /\ outcome = [op |-> "add_line_to_proof", threw |-> FALSE]
    /\ lines[Len(lines)].justification = "EQ"
    /\ eq_rule(<<>>, lines[Len(lines)].statement).err # ""

\* C30: an accepted line discharges the pending target it equals whether that
\* target is the active one or not, the one of lowest index if several match;
\* a tactic never discharges a target, so a target that a tactic turns into a
\* formula already in the line log stays pending, until a line with that
\* formula is added again.
C30_DischargeAnyPendingTarget ==
    /\ \A c \in AddLineCalls :
        LET res == add_line_to_proof(this, c[1], c[2], c[3])
            hits == {i \in 1..Len(targets) : targets[i] = c[1]}
        IN  (res.err = "" /\ hits # {}) =>
                \E i \in hits :
                    /\ \A j \in hits : i <= j
                    /\ res.state.targets =
                        [j \in 1..(Len(targets) - 1) |->
                            IF j < i THEN targets[j] ELSE targets[j + 1]]
    /\ \A res \in TacticResults :
        res.err = "" =>
            /\ Len(res.state.targets) >= Len(targets)
            /\ res.state.lines = lines
            /\ \A i \in 1..Len(res.state.targets) :
                (\E j \in 1..Len(lines) : lines[j].statement = res.state.targets[i])
                    => \A rule_name \in Clients[client].rule_names, deps \in DepsPool :
                        LET again == add_line_to_proof(res.state, res.state.targets[i],
                                                       rule_name, deps)
                        IN  again.err = "" =>
                                Len(again.state.targets) = Len(res.state.targets) - 1

\* A target that was not the active one has been discharged, and a later
\* split has produced two targets that are both in the line log already:
\* they are pending.
C30_Witness ==
    /\ outcome = [op |-> "instantiate_induction", threw |-> FALSE]
    /\ Len(targets) = 2
    /\ \A i \in 1..2 : \E j \in 1..Len(lines) : lines[j].statement = targets[i]
    /\ \E j \in 1..Len(lines) : lines[j].statement = targets[2] /\ lines[j].justification = "ASSUMPTION"

====
